---- MODULE Spec2Model ----
(***************************************************************************)
(* DROPGUARD (dropguard.py): the "create" action of the script.            *)
(*                                                                         *)
(*   main -> create_droplet -> request (POST /v2/droplets)                 *)
(*                          -> droplet_status (sleep 5, GET, until active) *)
(*                          -> config_status (sleep 10, SSH connect, read  *)
(*                             cloud-init log, SCP get, close)             *)
(*                                                                         *)
(* The provider and the droplet are the environment: every HTTP response,  *)
(* every connection outcome and every log content is chosen from a small   *)
(* set.  One action is one blocking call of the script together with the   *)
(* non-blocking code that follows it up to the next blocking call.         *)
(***************************************************************************)
EXTENDS Integers, Sequences, FiniteSets, TLC

\* ---------------------------------------------------------------- bounds
MaxPolls == 3       \* status requests modelled per run (the code has no cap)
MaxConnects == 4    \* connection attempts modelled per run (the code has no cap)
MaxLogLen == 2      \* lines in a cloud-init log
MaxNets == 2        \* entries in droplet["networks"]["v4"]
MaxPieces == 3      \* pieces a template text is put together from

\* ------------------------------------------------------- option values
None == <<>>
Some(v) == <<v>>
IsSome(o) == Len(o) = 1
Get(o) == o[1]

\* A JSON object is a function from its keys to values.
HasKey(obj, k) == k \in DOMAIN obj

\* --------------------------------------------------- FINISHED_PATTERN
\* A line is a sequence of tokens; a token stands for a non-empty run of
\* characters.  NL is the line terminator that readlines() keeps.
CLOUD_INIT == "Cloud-init"
FINISHED_AT == "finished at"
NL == "\n"

\* re.search(re.compile("Cloud-init.+finished at"), line): the literal
\* "Cloud-init", then one or more characters other than a newline, then
\* the literal "finished at", anywhere in the line.
FINISHED_PATTERN(line) ==
    \E i \in 1..Len(line) : \E j \in 1..Len(line) :
        /\ line[i] = CLOUD_INIT
        /\ line[j] = FINISHED_AT
        /\ j > i + 1
        /\ \A k \in (i + 1)..(j - 1) : line[k] # NL

LineDone == <<CLOUD_INIT, " v. 20.4.1 ", FINISHED_AT, " Mon, 01 Jan", NL>>
LineAdjacent == <<CLOUD_INIT, FINISHED_AT, NL>>
LineReversed == <<FINISHED_AT, " ", CLOUD_INIT, NL>>
LineOther == <<"Setting up wireguard", NL>>
Lines == {LineDone, LineAdjacent, LineReversed, LineOther}

RECURSIVE SeqsUpTo(_, _)
SeqsUpTo(S, n) ==
    IF n = 0 THEN {<<>>}
    ELSE LET shorter == SeqsUpTo(S, n - 1)
         IN shorter \cup {Append(s, e) : s \in {t \in shorter : Len(t) = n - 1}, e \in S}

\* What stdout.readlines() can return for /var/log/cloud-init-output.log.
Logs == SeqsUpTo(Lines, MaxLogLen)

\* ------------------------------------------------- cloud_config.yml
\* A text is a sequence of characters.
PLACEHOLDER == <<"W", "G", "_", "P", "O", "R", "T">>

\* s has sub at index i
HasAt(s, i, sub) ==
    /\ i + Len(sub) - 1 <= Len(s)
    /\ SubSeq(s, i, i + Len(sub) - 1) = sub

\* sub in s
Contains(s, sub) == \E i \in 1..(Len(s) + 1) : HasAt(s, i, sub)

\* str.replace(old, new) from index i on: the occurrences of old are found
\* from left to right and do not overlap; old is not empty.
RECURSIVE ReplaceFrom(_, _, _, _)
ReplaceFrom(s, i, old, new) ==
    IF i > Len(s) THEN <<>>
    ELSE IF HasAt(s, i, old)
         THEN new \o ReplaceFrom(s, i + Len(old), old, new)
         ELSE <<s[i]>> \o ReplaceFrom(s, i + 1, old, new)

\* str.replace(old, new, 1): only the first occurrence
RECURSIVE ReplaceFirst(_, _, _)
ReplaceFirst(s, old, new) ==
    IF Len(s) = 0 THEN <<>>
    ELSE IF HasAt(s, 1, old)
         THEN new \o SubSeq(s, Len(old) + 1, Len(s))
         ELSE <<s[1]>> \o ReplaceFirst(SubSeq(s, 2, Len(s)), old, new)

\* create_droplet, line 193: user_data.replace("WG_PORT", port)
Replace(s, old, new) == ReplaceFrom(s, 1, old, new)

RECURSIVE Flatten(_)
Flatten(ss) == IF Len(ss) = 0 THEN <<>> ELSE ss[1] \o Flatten(SubSeq(ss, 2, Len(ss)))

\* The contents cloud_config.yml can have: texts put together from the
\* placeholder, its two halves and other characters.
Pieces == {PLACEHOLDER, <<"W", "G", "_">>, <<"P", "O", "R", "T">>, <<"x">>}
Templates == {Flatten(ss) : ss \in SeqsUpTo(Pieces, MaxPieces)}

\* a cloud_config.yml with one placeholder
CloudConfig == <<"x">> \o PLACEHOLDER \o <<"x">>

\* args.port: the default of --port, and other strings argparse accepts
DefaultPort == <<"4", "2", "0", "6", "9">>
Ports == {DefaultPort, <<"5", "1", "8", "2", "0">>, <<>>, PLACEHOLDER}

\* ------------------------------------------------------ provider bodies
PublicA == [type |-> "public", ip_address |-> "203.0.113.5"]
PublicB == [type |-> "public", ip_address |-> "198.51.100.7"]
PrivateC == [type |-> "private", ip_address |-> "10.19.0.5"]
NetEntries == {PublicA, PublicB, PrivateC}
NetLists == SeqsUpTo(NetEntries, MaxNets)

DROPLET_ID == "3164444"

Text(obj) == [valid |-> TRUE, obj |-> Some(obj)]
Garbage == [valid |-> FALSE, obj |-> None]

ErrorBody == [id |-> "unauthorized", message |-> "Unable to authenticate you"]
ErrorNoMessage == [id |-> "server_error"]

CreateTexts ==
    { Text([droplet |-> [id |-> DROPLET_ID, status |-> "new"]]),
      Text([droplet |-> [status |-> "new"]]),
      Text([links |-> "none"]),
      Text(ErrorBody), Text(ErrorNoMessage), Garbage }

StatusTexts ==
    { Text([droplet |-> [id |-> DROPLET_ID, status |-> "active", networks |-> [v4 |-> n]]]) :
          n \in NetLists }
    \cup { Text([droplet |-> [id |-> DROPLET_ID, status |-> s, networks |-> [v4 |-> <<>>]]]) :
          s \in {"new", "Active", "off"} }
    \cup { Text([droplet |-> [id |-> DROPLET_ID, status |-> "active"]]),
           Text([droplet |-> [id |-> DROPLET_ID]]),
           Text([links |-> "none"]),
           Text(ErrorBody), Text(ErrorNoMessage), Garbage }

StatusCodes == {200, 202, 401, 500}

CreateResponses == [status_code : StatusCodes, text : CreateTexts]
StatusResponses == [status_code : StatusCodes, text : StatusTexts]

\* ------------------------------------------------------------- request
Return(v) == [exc |-> "none", val |-> Some(v), err |-> None]
Raise(e) == [exc |-> e, val |-> None, err |-> None]

\* request with only 200 taken as success
requestOnly200(r) ==
    IF ~r.text.valid THEN Raise("JSONDecodeError")
    ELSE LET res == Get(r.text.obj) IN
         IF r.status_code # 200
         THEN IF HasKey(res, "id") /\ HasKey(res, "message")
              THEN [exc |-> "DigitalOceanError", val |-> None,
                    err |-> Some(<<res.id, res.message>>)]
              ELSE Raise("KeyError")
         ELSE Return(res)

\* request(url, data): json.loads(r.text) first, then the status test.
request(r) ==
    IF ~r.text.valid THEN Raise("JSONDecodeError")
    ELSE LET res == Get(r.text.obj) IN
         IF r.status_code # 200 /\ r.status_code # 202
         THEN IF HasKey(res, "id") /\ HasKey(res, "message")
              THEN [exc |-> "DigitalOceanError", val |-> None,
                    err |-> Some(<<res.id, res.message>>)]
              ELSE Raise("KeyError")
         ELSE Return(res)

\* ------------------------------------------------------------- state
VARIABLES
    pc,              \* position of the single thread of control
    last_resp,       \* the last HTTP response received (option)
    req_result,      \* what the last call of request() returned or raised
    res,             \* create_droplet: res (option)
    droplet_data,    \* create_droplet: droplet_data (option)
    droplet_ip,      \* create_droplet: droplet_ip (option; None = unbound)
    stdout,          \* config_status: lines read in this iteration (option;
                     \* None until exec_command has run in it)
    cycle_connected, \* config_status: connect succeeded in this iteration
    connect_result,  \* config_status: how connect ended in this iteration
                     \* ("none" until it has been called in it)
    open_transports, \* SSH transports opened and not closed
    scp_open,        \* the SCP sub-channel has been opened and not closed
    slept,           \* a time.sleep() has run since the last request/connect
    ssh_host,        \* hostname of the last ssh_client.connect (option)
    saved_to,        \* local path scp_client.get has written (option)
    template,        \* the content of cloud_config.yml
    port,            \* args.port
    user_data,       \* create_droplet: request_data["user_data"] (option)
    script,          \* how many answers of the environment have followed the
                     \* end-to-end scenario so far; OffScript once one did not
    nCreate, nStatus, nConnect, nFetch,   \* operations performed so far
    outcome,         \* "none" while running, else how main ended
    error_log,       \* who wrote the error-level log line, if any
    exit_status      \* process exit status; -1 while running

vars == <<pc, last_resp, req_result, res, droplet_data, droplet_ip, stdout,
          cycle_connected, connect_result, open_transports, scp_open, slept,
          ssh_host, saved_to, script, template, port, user_data,
          nCreate, nStatus, nConnect, nFetch, outcome, error_log, exit_status>>

\* main is about to call create_droplet
Start ==
    /\ pc = "create"
    /\ last_resp = None
    /\ req_result = Raise("none")
    /\ res = None
    /\ droplet_data = None
    /\ droplet_ip = None
    /\ stdout = None
    /\ cycle_connected = FALSE
    /\ connect_result = "none"
    /\ open_transports = 0
    /\ scp_open = FALSE
    /\ slept = FALSE
    /\ ssh_host = None
    /\ saved_to = None
    /\ script = 0
    /\ nCreate = 0 /\ nStatus = 0 /\ nConnect = 0 /\ nFetch = 0
    /\ outcome = "none"
    /\ error_log = "none"
    /\ exit_status = -1
    /\ user_data = None

Init ==
    /\ Start
    /\ template = CloudConfig
    /\ port = DefaultPort

\* every template and port
InitPayload ==
    /\ Start
    /\ template \in Templates
    /\ port \in Ports

\* args.output: the default of --output
ArgsOutput == "dropguard.conf"

\* ------------------------------------------- the end-to-end scenario
\* The environment's answers of the scenario, in order:
\*   1      create answered with a droplet id
\*   2, 3   status "new"
\*   4      status "active" with the one public address 203.0.113.5
\*   5, 6   connect refused (NoValidConnectionsError)
\*   7      connect accepted
\*   8      a log whose last line does not match
\*   9      connect accepted
\*   10     a log whose last line matches
\*   11     the SCP get succeeds
\* and where the run is, and what it has done, after each of them.
ScenarioStatus == <<0, 1, 2, 3, 3, 3, 3, 3, 3, 3, 3>>
ScenarioConnects == <<0, 0, 0, 0, 1, 2, 3, 3, 4, 4, 4>>
ScenarioPcs ==
    << {"poll_sleep", "poll_req"}, {"poll_sleep", "poll_req"}, {"poll_sleep", "poll_req"},
       {"w_sleep", "w_connect"}, {"w_sleep", "w_connect"}, {"w_sleep", "w_connect"},
       {"w_exec"}, {"w_sleep", "w_connect"}, {"w_exec"}, {"w_get"}, {"w_close", "done"} >>

ScriptEnd == Len(ScenarioPcs)
OffScript == ScriptEnd + 1

\* The answer just given is the next one of the scenario when the scenario
\* has been followed up to one of the steps in after.
Follow(k, after) == IF k \in after THEN k + 1 ELSE OffScript

\* ------------------------------------------------------ ways main ends
\* main, lines 254-256: DigitalOceanError is logged and exit(1) is called.
MainCatches(e) == e = "DigitalOceanError"

\* An exception leaves create_droplet; main either handles it or the
\* interpreter prints the traceback and exits with status 1.
Propagate(e) ==
    /\ pc' = "done"
    /\ outcome' = e
    /\ error_log' = IF MainCatches(e) THEN "main" ELSE error_log
    /\ exit_status' = 1

\* create_droplet, lines 212-214: KeyError is logged, create_droplet returns,
\* main falls off its end.
CaughtKeyError ==
    /\ pc' = "done"
    /\ outcome' = "KeyError caught"
    /\ error_log' = "create_droplet"
    /\ exit_status' = 0

\* What leaves the try block of create_droplet (lines 210-214).
InTry(e) ==
    IF e = "KeyError" THEN CaughtKeyError ELSE Propagate(e)

\* obj[k1][k2] as Python evaluates it: KeyError when a key is missing.
Subscript2(obj, k1, k2) ==
    IF HasKey(obj, k1) /\ HasKey(obj[k1], k2)
    THEN Return(obj[k1][k2])
    ELSE Raise("KeyError")

\* res.get("droplet", {}).get("id", "")
DropletIdDefault(r) ==
    IF HasKey(r, "droplet") /\ HasKey(r.droplet, "id")
    THEN Return(r.droplet.id) ELSE Return("")

\* create_droplet, line 211: res["droplet"]["id"]
DropletId(r) == Subscript2(r, "droplet", "id")

\* the loop without its break: the last public entry wins
FirstPublicNoBreak(v4) ==
    LET publics == {i \in 1..Len(v4) : v4[i].type = "public"}
    IN IF publics = {} THEN None
       ELSE Some(v4[CHOOSE i \in publics : \A j \in publics : i >= j].ip_address)

\* the first entry of any type when there is no public one
FirstPublicOrAny(v4) ==
    LET publics == {i \in 1..Len(v4) : v4[i].type = "public"}
    IN IF publics = {} THEN (IF Len(v4) = 0 THEN None ELSE Some(v4[1].ip_address))
       ELSE Some(v4[CHOOSE i \in publics : \A j \in publics : i <= j].ip_address)

\* create_droplet, lines 216-220: the for loop with its break; None when the
\* loop ends without binding droplet_ip.
FirstPublic(v4) ==
    LET publics == {i \in 1..Len(v4) : v4[i].type = "public"}
    IN IF publics = {} THEN None
       ELSE Some(v4[CHOOSE i \in publics : \A j \in publics : i <= j].ip_address)

\* a comparison that ignores case
IsActiveAnyCase(status) == status \in {"active", "Active"}

\* droplet_status, line 169
IsActive(status) == status = "active"

\* ----------------------------------------------------------- actions
\* main (242-252) calls create_droplet; lines 188-214 up to the first
\* time.sleep of droplet_status.
create_droplet_request ==
    /\ pc = "create"
    /\ user_data' = Some(Replace(template, PLACEHOLDER, port))
    /\ UNCHANGED <<template, port>>
    /\ \E r \in CreateResponses :
        LET q == request(r) IN
        /\ last_resp' = Some(r)
        /\ req_result' = q
        /\ nCreate' = nCreate + 1
        /\ script' = Follow(script,
                IF /\ r.status_code \in {200, 202}
                   /\ r.text = Text([droplet |-> [id |-> DROPLET_ID, status |-> "new"]])
                THEN {0} ELSE {})
        /\ IF q.exc # "none"
           THEN /\ Propagate(q.exc)          \* line 207 is outside the try
                /\ res' = res
           ELSE /\ res' = q.val
                /\ IF DropletId(Get(q.val)).exc = "none"
                   THEN /\ pc' = "poll_sleep"
                        /\ UNCHANGED <<outcome, error_log, exit_status>>
                   ELSE InTry(DropletId(Get(q.val)).exc)
    /\ slept' = FALSE
    /\ UNCHANGED <<droplet_data, droplet_ip, stdout, cycle_connected, connect_result,
                   open_transports, scp_open, ssh_host, saved_to,
                   nStatus, nConnect, nFetch>>

\* droplet_status, line 167
droplet_status_sleep ==
    /\ UNCHANGED <<template, port, user_data>>
    /\ pc = "poll_sleep"
    /\ nStatus < MaxPolls
    /\ pc' = "poll_req"
    /\ slept' = TRUE
    /\ UNCHANGED <<last_resp, req_result, res, droplet_data, droplet_ip, stdout,
                   cycle_connected, connect_result, open_transports, scp_open,
                   ssh_host, saved_to, script,
                   nCreate, nStatus, nConnect, nFetch, outcome, error_log, exit_status>>

\* droplet_ip = "" before the loop: a placeholder address when none is public
AfterActivePlaceholder(d) ==
    LET v4 == Subscript2(d, "networks", "v4") IN
    IF v4.exc # "none"
    THEN /\ Propagate(v4.exc)
         /\ droplet_ip' = droplet_ip
    ELSE /\ droplet_ip' = IF IsSome(FirstPublic(Get(v4.val)))
                          THEN FirstPublic(Get(v4.val)) ELSE Some("")
         /\ pc' = "w_sleep"
         /\ UNCHANGED <<outcome, error_log, exit_status>>

\* create_droplet, lines 216-223, up to the first time.sleep of config_status:
\* d is the droplet returned by droplet_status.
AfterActive(d) ==
    LET v4 == Subscript2(d, "networks", "v4") IN
    IF v4.exc # "none"
    THEN /\ Propagate(v4.exc)                \* line 216 is outside the try
         /\ droplet_ip' = droplet_ip
    ELSE /\ droplet_ip' = FirstPublic(Get(v4.val))
         /\ IF IsSome(FirstPublic(Get(v4.val)))
            THEN /\ pc' = "w_sleep"
                 /\ UNCHANGED <<outcome, error_log, exit_status>>
            ELSE Propagate("UnboundLocalError")   \* line 223 reads droplet_ip

\* droplet_status, lines 168-170, and what create_droplet does with the result.
droplet_status_request ==
    /\ UNCHANGED <<template, port, user_data>>
    /\ pc = "poll_req"
    /\ \E r \in StatusResponses :
        LET q == request(r) IN
        /\ last_resp' = Some(r)
        /\ req_result' = q
        /\ nStatus' = nStatus + 1
        /\ script' = Follow(script,
                IF r.status_code \in {200, 202} /\ r.text.valid
                THEN IF Get(r.text.obj) = [droplet |-> [id |-> DROPLET_ID, status |-> "new",
                                                       networks |-> [v4 |-> <<>>]]]
                     THEN {1, 2}
                     ELSE IF Get(r.text.obj) = [droplet |-> [id |-> DROPLET_ID,
                                                   status |-> "active",
                                                   networks |-> [v4 |-> <<PublicA>>]]]
                     THEN {3} ELSE {}
                ELSE {})
        /\ IF q.exc # "none"
           THEN /\ InTry(q.exc)
                /\ UNCHANGED <<droplet_data, droplet_ip>>
           ELSE LET st == Subscript2(Get(q.val), "droplet", "status") IN
                IF st.exc # "none"
                THEN /\ InTry(st.exc)
                     /\ UNCHANGED <<droplet_data, droplet_ip>>
                ELSE IF IsActive(Get(st.val))
                     THEN /\ droplet_data' = Some(Get(q.val).droplet)
                          /\ AfterActive(Get(q.val).droplet)
                     ELSE /\ pc' = "poll_sleep"
                          /\ UNCHANGED <<droplet_data, droplet_ip, outcome,
                                         error_log, exit_status>>
    /\ slept' = FALSE
    /\ UNCHANGED <<res, stdout, cycle_connected, connect_result, open_transports,
                   scp_open, ssh_host, saved_to, nCreate, nConnect, nFetch>>

\* config_status, lines 134-137
config_status_sleep ==
    /\ UNCHANGED <<template, port, user_data>>
    /\ pc = "w_sleep"
    /\ nConnect < MaxConnects
    /\ pc' = "w_connect"
    /\ slept' = TRUE
    /\ cycle_connected' = FALSE
    /\ connect_result' = "none"
    /\ stdout' = None
    /\ UNCHANGED <<last_resp, req_result, res, droplet_data, droplet_ip,
                   open_transports, scp_open, ssh_host, saved_to, script,
                   nCreate, nStatus, nConnect, nFetch, outcome, error_log, exit_status>>

ConnectOutcomes == {"ok", "NoValidConnectionsError", "AuthenticationException", "SSHException"}

\* except Exception: every connection error is taken as transient
IsTransientAny(o) == o # "ok"

\* config_status, line 141: the except clause of the connect
IsTransient(o) == o = "NoValidConnectionsError"

\* continue that goes back to polling the provider
ContinueToPoller == "poll_sleep"

\* continue that skips the sleep
ContinueToConnect == "w_connect"

\* config_status, line 143: continue goes to the head of the while loop,
\* which is the sleep of lines 136-137
ContinueTarget == "w_sleep"

\* config_status, lines 139-143
config_status_connect ==
    /\ UNCHANGED <<template, port, user_data>>
    /\ pc = "w_connect"
    /\ nConnect' = nConnect + 1
    /\ slept' = FALSE
    /\ ssh_host' = droplet_ip                \* hostname=ip, line 223: ip=droplet_ip
    /\ \E o \in ConnectOutcomes :
        /\ connect_result' = o
        /\ script' = Follow(script,
                IF o = "NoValidConnectionsError" THEN {4, 5}
                ELSE IF o = "ok" THEN {6, 8} ELSE {})
        /\ IF o = "ok"
           THEN /\ pc' = "w_exec"
                /\ cycle_connected' = TRUE
                /\ open_transports' = open_transports + 1
                /\ UNCHANGED <<outcome, error_log, exit_status>>
           ELSE IF IsTransient(o)
           THEN /\ pc' = ContinueTarget
                /\ UNCHANGED <<cycle_connected, open_transports, outcome, error_log,
                               exit_status>>
           ELSE /\ Propagate(o)
                /\ UNCHANGED <<cycle_connected, open_transports>>
    /\ UNCHANGED <<last_resp, req_result, res, droplet_data, droplet_ip, stdout,
                   scp_open, saved_to, nCreate, nStatus, nFetch>>

\* stdout.readlines()[0]: the first line instead of the last
LastLineFirst(lines) ==
    IF Len(lines) = 0 THEN Raise("IndexError") ELSE Return(lines[1])

\* stdout.readlines()[-1]
LastLine(lines) ==
    IF Len(lines) = 0 THEN Raise("IndexError") ELSE Return(lines[Len(lines)])

\* config_status, lines 145-147
config_status_exec ==
    /\ UNCHANGED <<template, port, user_data>>
    /\ pc = "w_exec"
    /\ \/ /\ Propagate("SSHException")       \* exec_command fails
          /\ stdout' = stdout
          /\ script' = OffScript
       \/ \E lines \in Logs :
            /\ stdout' = Some(lines)
            /\ script' = Follow(script,
                    IF Len(lines) = 0 THEN {}
                    ELSE IF FINISHED_PATTERN(lines[Len(lines)]) THEN {9} ELSE {7})
            /\ IF LastLine(lines).exc # "none"
               THEN Propagate(LastLine(lines).exc)
               ELSE /\ pc' = IF FINISHED_PATTERN(Get(LastLine(lines).val))
                             THEN "w_get" ELSE "w_sleep"
                    /\ UNCHANGED <<outcome, error_log, exit_status>>
    /\ UNCHANGED <<last_resp, req_result, res, droplet_data, droplet_ip,
                   cycle_connected, connect_result, open_transports, scp_open, slept,
                   ssh_host, saved_to, nCreate, nStatus, nConnect, nFetch>>

\* the get without its break: the loop goes round again after the fetch
config_status_getNoBreak ==
    /\ UNCHANGED <<template, port, user_data>>
    /\ pc = "w_get"
    /\ scp_open' = TRUE
    /\ \/ /\ nFetch' = nFetch + 1
          /\ saved_to' = Some(ArgsOutput)
          /\ script' = Follow(script, {10})
          /\ pc' = "w_sleep"
          /\ UNCHANGED <<outcome, error_log, exit_status>>
       \/ /\ Propagate("SCPException")
          /\ script' = OffScript
          /\ UNCHANGED <<nFetch, saved_to>>
    /\ UNCHANGED <<last_resp, req_result, res, droplet_data, droplet_ip, stdout,
                   cycle_connected, connect_result, open_transports, slept,
                   ssh_host, nCreate, nStatus, nConnect>>

\* config_status, lines 150-154
config_status_get ==
    /\ UNCHANGED <<template, port, user_data>>
    /\ pc = "w_get"
    /\ scp_open' = TRUE
    /\ \/ /\ nFetch' = nFetch + 1
          /\ saved_to' = Some(ArgsOutput)     \* outfile=output, line 223
          /\ script' = Follow(script, {10})
          /\ pc' = "w_close"                 \* break
          /\ UNCHANGED <<outcome, error_log, exit_status>>
       \/ /\ Propagate("SCPException")
          /\ script' = OffScript
          /\ UNCHANGED <<nFetch, saved_to>>
    /\ UNCHANGED <<last_resp, req_result, res, droplet_data, droplet_ip, stdout,
                   cycle_connected, connect_result, open_transports, slept,
                   ssh_host, nCreate, nStatus, nConnect>>

\* config_status, line 156; config_status, create_droplet and main return.
config_status_close ==
    /\ UNCHANGED <<template, port, user_data>>
    /\ pc = "w_close"
    /\ open_transports' = open_transports - 1   \* the client's current transport
    /\ scp_open' = FALSE                        \* and the channels on it
    /\ pc' = "done"
    /\ outcome' = "returned"
    /\ exit_status' = 0
    /\ UNCHANGED <<last_resp, req_result, res, droplet_data, droplet_ip, stdout,
                   cycle_connected, connect_result, slept, ssh_host, saved_to, script,
                   nCreate, nStatus, nConnect, nFetch, error_log>>

Next ==
    \/ create_droplet_request
    \/ droplet_status_sleep
    \/ droplet_status_request
    \/ config_status_sleep
    \/ config_status_connect
    \/ config_status_exec
    \/ config_status_get
    \/ config_status_close

Spec == Init /\ [][Next]_vars

\* the create request for every template and port
NextPayload == create_droplet_request

SpecPayload == InitPayload /\ [][NextPayload]_vars

\* One thread of control and no signal handling: the interpreter always
\* takes the next step of the run, and every blocking call returns.
FairSpec == Spec /\ WF_vars(Next)

\* ------------------------------------------------------------ claims
WatcherPcs == {"w_sleep", "w_connect", "w_exec", "w_get", "w_close"}

\* The last line of a log matches the completion marker.
TailMatches(lines) == Len(lines) > 0 /\ FINISHED_PATTERN(lines[Len(lines)])

\* C1: the SCP get happens only in an iteration of config_status in which
\* connect succeeded and the last line of the log read in that iteration
\* matches FINISHED_PATTERN.
C1_FetchOnlyAfterTailMatch ==
    (pc \in {"w_get", "w_close"} \/ nFetch > 0) =>
        /\ cycle_connected
        /\ IsSome(stdout)
        /\ TailMatches(Get(stdout))

\* a fetch has happened on a log of more than one line
C1_Witness ==
    /\ nFetch = 1
    /\ Len(Get(stdout)) = 2
    /\ ~FINISHED_PATTERN(Get(stdout)[1])

\* The last HTTP response is a success carrying droplet.status = "active".
LastResponseActive ==
    /\ IsSome(last_resp)
    /\ Get(last_resp).status_code \in {200, 202}
    /\ Get(last_resp).text.valid
    /\ HasKey(Get(Get(last_resp).text.obj), "droplet")
    /\ HasKey(Get(Get(last_resp).text.obj).droplet, "status")
    /\ Get(Get(last_resp).text.obj).droplet.status = "active"

\* C2: whenever config_status is running (and so before its first connect),
\* a status response with status "active" has been received and droplet_ip
\* is bound to the address of a public entry of that response.
C2_WatcherOnlyAfterActive ==
    (pc \in WatcherPcs \/ nConnect > 0) =>
        /\ nStatus > 0
        /\ LastResponseActive
        /\ IsSome(droplet_data)
        /\ Get(droplet_data) = Get(Get(last_resp).text.obj).droplet
        /\ IsSome(droplet_ip)
        /\ \E i \in 1..Len(Get(droplet_data).networks.v4) :
              /\ Get(droplet_data).networks.v4[i].type = "public"
              /\ Get(droplet_data).networks.v4[i].ip_address = Get(droplet_ip)

\* the watcher is about to make its first connection attempt
C2_Witness == pc = "w_connect" /\ nConnect = 0 /\ nStatus = 2

\* C3 (as claimed): after every log read whose tail does not match the
\* marker, an empty log included, config_status neither fetches nor ends
\* and goes back to the sleep before the next connect.
C3_NoMatchKeepsPolling ==
    [][(pc = "w_exec" /\ outcome' # "SSHException" /\ ~TailMatches(Get(stdout')))
          => (pc' = "w_sleep" /\ nFetch' = nFetch /\ outcome' = "none")]_vars

\* C4 (as claimed): no connect is attempted and the watcher is not left
\* while a transport or the SCP channel opened earlier is still open.
C4_ClosedOnEveryPath ==
    (pc \in {"w_connect", "done"}) => (open_transports = 0 /\ ~scp_open)

\* C5 (as claimed): a run ended by a handled error exits non-zero, and
\* exit status zero means the artifact was fetched.
C5_HandledErrorExitsNonZero ==
    /\ (pc = "done" /\ outcome # "returned") => exit_status # 0
    /\ exit_status = 0 => nFetch = 1

\* The create response was returned by request() but has no droplet id.
CreateLacksId ==
    /\ IsSome(res)
    /\ ~(HasKey(Get(res), "droplet") /\ HasKey(Get(res).droplet, "id"))

\* C6: when the create response lacks the droplet id, the run ends without
\* any sleep, status request or connection attempt, and what is reported is
\* an error logged by create_droplet that is not a DigitalOceanError.
C6_NoIdAbortsWithoutPolling ==
    CreateLacksId =>
        /\ pc = "done"
        /\ nStatus = 0 /\ nConnect = 0 /\ nFetch = 0
        /\ ~slept
        /\ outcome \notin {"none", "returned", "DigitalOceanError"}
        /\ error_log = "create_droplet"

\* the create request was answered 200/202 with a droplet that has no id
C6_Witness ==
    /\ CreateLacksId
    /\ HasKey(Get(res), "droplet")
    /\ nCreate = 1

\* the droplet.status of a response that request() returns; None otherwise
ReturnedStatus(r) ==
    IF /\ r.status_code \in {200, 202}
       /\ r.text.valid
       /\ HasKey(Get(r.text.obj), "droplet")
       /\ HasKey(Get(r.text.obj).droplet, "status")
    THEN Some(Get(r.text.obj).droplet.status)
    ELSE None

\* C7: droplet_status returns (droplet_data becomes bound) only on a status
\* response whose status is exactly "active"; on every other status value
\* it goes back to its sleep and the run goes on.
C7_ReturnsOnlyOnActive ==
    [][pc = "poll_req" =>
        /\ IsSome(droplet_data') => ReturnedStatus(Get(last_resp')) = Some("active")
        /\ (/\ IsSome(ReturnedStatus(Get(last_resp')))
            /\ ReturnedStatus(Get(last_resp')) # Some("active"))
           => (pc' = "poll_sleep" /\ droplet_data' = None /\ outcome' = "none")]_vars

\* the poller has gone round again after a differently-cased status
C7_Witness ==
    /\ pc = "poll_sleep"
    /\ nStatus = 2
    /\ ReturnedStatus(Get(last_resp)) = Some("Active")

\* The active droplet has an address list without a public entry.
NoPublicEntry ==
    /\ IsSome(droplet_data)
    /\ HasKey(Get(droplet_data), "networks")
    /\ \A i \in 1..Len(Get(droplet_data).networks.v4) :
          Get(droplet_data).networks.v4[i].type # "public"

\* C8: when the active droplet's address list has no public entry the run
\* is over with an error: no address is bound, config_status never runs,
\* nothing is fetched and the exit status is not zero.
C8_NoPublicAddressIsFatal ==
    NoPublicEntry =>
        /\ pc = "done"
        /\ droplet_ip = None
        /\ nConnect = 0 /\ nFetch = 0
        /\ outcome \notin {"none", "returned"}
        /\ exit_status = 1

\* the active droplet had only a private address
C8_Witness ==
    /\ NoPublicEntry
    /\ Len(Get(droplet_data).networks.v4) > 0
    /\ outcome = "UnboundLocalError"

C10_ProviderErrorSurfaced ==
    (IsSome(last_resp) /\ Get(last_resp).status_code \notin {200, 202}) =>
        /\ pc = "done"
        /\ nConnect = 0
        /\ exit_status = 1
        /\ (error_log = "main" \/ outcome \in {"KeyError", "JSONDecodeError"})

\* The last status response is one request() cannot hand to the poller as a
\* droplet with a status: unparsable, or a success without droplet.status.
MalformedStatusResponse ==
    /\ nStatus > 0
    /\ \/ ~Get(last_resp).text.valid
       \/ /\ Get(last_resp).status_code \in {200, 202}
          /\ ~(/\ HasKey(Get(Get(last_resp).text.obj), "droplet")
               /\ HasKey(Get(Get(last_resp).text.obj).droplet, "status"))

\* C11 (as claimed): a malformed status response ends the polling, the
\* watcher is not started, and the failure leaves create_droplet as an
\* error instead of create_droplet returning normally.
C11_MalformedStatusPropagates ==
    MalformedStatusResponse =>
        /\ pc = "done"
        /\ nConnect = 0
        /\ outcome \notin {"returned", "KeyError caught"}
        /\ exit_status = 1

FatalConnectErrors == {"AuthenticationException", "SSHException"}

\* C12: a NoValidConnectionsError of connect leads back to the sleep before
\* another attempt, with nothing fetched and the run going on; any other
\* connection error ends the run at once with that error, without fetch,
\* and no step (so no further connect, no restart of the watcher) follows.
C12_OnlyNotListeningIsRetried ==
    [][/\ (pc = "w_connect" /\ connect_result' = "NoValidConnectionsError")
            => (pc' = "w_sleep" /\ outcome' = "none" /\ exit_status' = -1
                /\ nFetch' = nFetch)
       /\ (pc = "w_connect" /\ connect_result' \in FatalConnectErrors)
            => (pc' = "done" /\ outcome' = connect_result' /\ exit_status' = 1
                /\ nFetch' = 0)
       /\ ~(pc = "done" /\ connect_result \in FatalConnectErrors)]_vars

\* three attempts in a row were refused and the watcher is still running
C12_Witness ==
    /\ pc = "w_sleep"
    /\ connect_result = "NoValidConnectionsError"
    /\ nConnect = 3
    /\ open_transports = 0

\* C13: the fetch happens at most once, in the first iteration whose log
\* tail matches (a matching tail always leads to the get, which either
\* fetches or ends the run), and after the fetch the only step is the close
\* that ends the run: no further connect, log read or fetch.
C13_FetchedExactlyOnce ==
    [][/\ nFetch' <= 1
       /\ (pc = "w_exec" /\ outcome' # "SSHException" /\ TailMatches(Get(stdout')))
            => (pc' = "w_get" /\ nFetch' = 0)
       /\ pc = "w_get"
            => \/ (pc' = "w_close" /\ nFetch' = 1)
               \/ (pc' = "done" /\ nFetch' = 0 /\ exit_status' = 1)
       /\ nFetch = 1
            => /\ pc' = "done" /\ exit_status' = 0
               /\ nFetch' = 1 /\ nConnect' = nConnect /\ stdout' = stdout]_vars

\* a run has ended with one fetch, made in its second connected iteration
C13_Witness ==
    /\ pc = "done"
    /\ nFetch = 1
    /\ open_transports = 1

\* C14: as long as the environment follows the end-to-end scenario the run
\* is where the scenario says: one create request, then status requests up
\* to exactly three, then connection attempts to 203.0.113.5 up to exactly
\* four, no fetch before the matching log, and at the end one fetch to the
\* configured output path and a normal return with exit status 0.
C14_EndToEndScenario ==
    script \in 1..ScriptEnd =>
        /\ pc \in ScenarioPcs[script]
        /\ nCreate = 1
        /\ nStatus = ScenarioStatus[script]
        /\ nConnect = ScenarioConnects[script]
        /\ script >= 4 => droplet_ip = Some("203.0.113.5")
        /\ nConnect > 0 => ssh_host = Some("203.0.113.5")
        /\ nFetch = (IF script = ScriptEnd THEN 1 ELSE 0)
        /\ saved_to = (IF script = ScriptEnd THEN Some(ArgsOutput) ELSE None)
        /\ outcome = (IF pc = "done" THEN "returned" ELSE "none")
        /\ exit_status = (IF pc = "done" THEN 0 ELSE -1)
        /\ error_log = "none"

\* the scenario has been followed to its end and the run is over
C14_Witness == script = ScriptEnd /\ pc = "done"

\* C15: the address config_status is given, and connects to, is that of the
\* first entry in list order of droplet_data["networks"]["v4"] whose type is
\* "public": every entry before it is not public.
C15_FirstPublicInListOrder ==
    (pc \in WatcherPcs \/ nConnect > 0) =>
        /\ IsSome(droplet_ip)
        /\ nConnect > 0 => ssh_host = droplet_ip
        /\ \E i \in 1..Len(Get(droplet_data).networks.v4) :
              /\ Get(droplet_data).networks.v4[i].type = "public"
              /\ Get(droplet_data).networks.v4[i].ip_address = Get(droplet_ip)
              /\ \A j \in 1..(i - 1) : Get(droplet_data).networks.v4[j].type # "public"

\* the watcher has connected to the first of two public addresses
C15_Witness ==
    /\ nConnect > 0
    /\ IsSome(droplet_data)
    /\ Get(droplet_data).networks.v4 = <<PublicB, PublicA>>
    /\ ssh_host = Some(PublicB.ip_address)

\* the number of occurrences of old that str.replace finds in s from i on
RECURSIVE Occurrences(_, _, _)
Occurrences(s, i, old) ==
    IF i > Len(s) THEN 0
    ELSE IF HasAt(s, i, old) THEN 1 + Occurrences(s, i + Len(old), old)
         ELSE Occurrences(s, i + 1, old)

\* a port that is not empty and has no character of the placeholder
PlainPort(p) ==
    /\ Len(p) > 0
    /\ \A i \in 1..Len(p) : \A j \in 1..Len(PLACEHOLDER) : p[i] # PLACEHOLDER[j]

\* C16 (as claimed): for every template and port, when the template
\* contains the placeholder the payload of the create request contains the
\* port and no occurrence of the placeholder.
C16_EveryPort ==
    (IsSome(user_data) /\ Contains(template, PLACEHOLDER)) =>
        /\ Contains(Get(user_data), port)
        /\ ~Contains(Get(user_data), PLACEHOLDER)

\* C16 (amended): for every template and port the payload is the template
\* with each occurrence of the placeholder, found from left to right without
\* overlap, replaced by the port (the template itself when there is none);
\* when the port is not empty and has no character of the placeholder, the
\* payload has no occurrence of the placeholder and, when the template had
\* one, contains the port.
C16_PlainPort ==
    IsSome(user_data) =>
        /\ ~Contains(template, PLACEHOLDER) => Get(user_data) = template
        /\ Len(Get(user_data)) =
              Len(template)
              + Occurrences(template, 1, PLACEHOLDER) * (Len(port) - Len(PLACEHOLDER))
        /\ PlainPort(port) =>
              /\ ~Contains(Get(user_data), PLACEHOLDER)
              /\ Contains(template, PLACEHOLDER) => Contains(Get(user_data), port)

\* a template with two placeholders has been sent with port 51820
C16_Witness ==
    /\ IsSome(user_data)
    /\ Occurrences(template, 1, PLACEHOLDER) = 2
    /\ port = <<"5", "1", "8", "2", "0">>

\* C17: exactly one creation request is sent and it is the first operation;
\* every status request comes after the creation response and before the
\* first connection attempt; once a connection has been attempted no request
\* is sent to the provider any more.
C17_PipelineOrder ==
    [][/\ nCreate' <= 1
       /\ pc # "create" => nCreate = 1
       /\ nCreate' # nCreate => (nCreate = 0 /\ nStatus = 0 /\ nConnect = 0)
       /\ nStatus' # nStatus => (nCreate = 1 /\ IsSome(res) /\ nConnect = 0)
       /\ nConnect' # nConnect => (nCreate = 1 /\ nStatus > 0)
       /\ nConnect > 0 =>
             /\ nCreate' = nCreate
             /\ nStatus' = nStatus
             /\ last_resp' = last_resp]_vars

\* the run has ended after several status requests and several connections
C17_Witness ==
    /\ pc = "done"
    /\ nCreate = 1
    /\ nStatus >= 2
    /\ nConnect >= 2
    /\ nFetch = 1

\* how main ends on an error of the provider or of the remote side
ProviderErrors == {"DigitalOceanError", "JSONDecodeError", "KeyError", "KeyError caught"}
FatalRemoteErrors == FatalConnectErrors \cup {"SCPException"}

\* C18: when the provider answers "active" with a public address, the remote
\* side from some point on accepts every connection, every log the watcher
\* reads from some point on ends in the completion marker, and no provider
\* error and no fatal remote error occurs, the run eventually ends with the
\* artifact fetched.
C18_EventuallyFetched ==
    ( /\ <>(pc \in WatcherPcs)
      /\ <>[](connect_result # "NoValidConnectionsError")
      /\ <>[]((pc # "done" /\ IsSome(stdout)) => TailMatches(Get(stdout)))
      /\ [](outcome \notin ProviderErrors \cup FatalRemoteErrors) )
    => <>(pc = "done" /\ nFetch = 1)

\* C19: every status request and every connection attempt, the first of each
\* included, comes directly after a sleep: none is made without a sleep since
\* the previous request or attempt.
C19_SleepBeforeEveryAttempt ==
    [][/\ (nStatus' # nStatus \/ nConnect' # nConnect) => (slept /\ ~slept')
       /\ pc \in {"poll_req", "w_connect"} <=> slept
       /\ (slept' /\ ~slept) => (pc \in {"poll_sleep", "w_sleep"}
                                  /\ nStatus' = nStatus /\ nConnect' = nConnect)]_vars

\* a third connection attempt is about to be made, after a sleep
C19_Witness ==
    /\ pc = "w_connect"
    /\ nConnect = 2
    /\ slept

TypeOK ==
    /\ pc \in {"create", "poll_sleep", "poll_req", "w_sleep", "w_connect", "w_exec",
               "w_get", "w_close", "done"}
    /\ nCreate \in 0..1 /\ nStatus \in 0..MaxPolls /\ nConnect \in 0..MaxConnects
    /\ nFetch \in 0..1
    /\ open_transports \in 0..MaxConnects
    /\ exit_status \in {-1, 0, 1}
    /\ (pc = "done") = (exit_status # -1)
====
